---- MODULE Spec2Model ----
(***************************************************************************)
(* splittar: split a byte stream into size-bounded chunks and write each   *)
(* chunk as one entry of a tar archive.                                    *)
(*                                                                         *)
(* Three entry points are modelled:                                        *)
(*   prog = "lib"   splittar.SplitTar called on a Config (src/splittar.go) *)
(*   prog = "cmd"   the flag-based front end (src/unnamed/part_001), which *)
(*                  builds a Config and calls splittar.SplitTar            *)
(*   prog = "main"  the stand-alone front end (src/main.go)                *)
(* and the size parser getSize of src/main.go as a pure function           *)
(* (prog = "size", specification SpecSize).                                *)
(*                                                                         *)
(* Strings are sequences of one-character strings.  int64 values are       *)
(* sign-magnitude records over little-endian base-2^8 limb sequences, so   *)
(* that 64-bit wrap-around is computed and not assumed away.               *)
(***************************************************************************)
EXTENDS Integers, Sequences, FiniteSets, TLC

VARIABLES
    prog,        \* which entry point runs: "size", "lib", "cmd", "main"
    pc,          \* position in the running function
    started,     \* whether the chunk loop has been entered
    exit,        \* how the process/function ended: "running", "return", "os.Exit", "panic"
    sizeString,  \* main.go: the -b argument handed to getSize
    size,        \* main.go: result of getSize, [val |-> int64, err |-> error]
    cfg,         \* the configuration of the run (block size, naming, source kind)
    source,      \* the source handle: its bytes, read position, open/close history
    target,      \* the target: file, tar.Writer state, entries written so far
    b,           \* the chunk buffer
    i,           \* chunk index
    n,           \* result n of the last Read / Write call
    read,        \* fill offset of the buffer (splittar.go: read, main.go: c)
    written,     \* splittar.go: bytes of the chunk handed to the writer so far
    err,         \* the error variable of the running function
    h,           \* the tar.Header template of the run
    host         \* what the identity lookups of the host answered

vars == <<prog, pc, started, exit, sizeString, size, cfg, source, target,
          b, i, n, read, written, err, h, host>>

Min(x, y) == IF x <= y THEN x ELSE y

(***************************************************************************)
(* Natural numbers of arbitrary size: little-endian limbs in base 2^8,     *)
(* without leading (most significant) zero limbs; <<>> is zero.            *)
(***************************************************************************)
LimbBase == 2^8

RECURSIVE Trim(_)
Trim(a) ==
    IF a = <<>> THEN <<>>
    ELSE IF a[Len(a)] = 0 THEN Trim(SubSeq(a, 1, Len(a) - 1))
    ELSE a

RECURSIVE BigFromNat(_)
BigFromNat(k) ==
    IF k = 0 THEN <<>>
    ELSE <<k % LimbBase>> \o BigFromNat(k \div LimbBase)

Limb(a, j) == IF j <= Len(a) THEN a[j] ELSE 0

RECURSIVE BigAddFrom(_, _, _, _)
BigAddFrom(a, c, j, carry) ==
    IF j > Len(a) /\ j > Len(c)
    THEN (IF carry = 0 THEN <<>> ELSE <<carry>>)
    ELSE LET s == Limb(a, j) + Limb(c, j) + carry
         IN  <<s % LimbBase>> \o BigAddFrom(a, c, j + 1, s \div LimbBase)

BigAdd(a, c) == Trim(BigAddFrom(a, c, 1, 0))

\* a - c for a >= c
RECURSIVE BigSubFrom(_, _, _, _)
BigSubFrom(a, c, j, borrow) ==
    IF j > Len(a) THEN <<>>
    ELSE LET d == Limb(a, j) - Limb(c, j) - borrow
         IN  IF d < 0
             THEN <<d + LimbBase>> \o BigSubFrom(a, c, j + 1, 1)
             ELSE <<d>> \o BigSubFrom(a, c, j + 1, 0)

BigSub(a, c) == Trim(BigSubFrom(a, c, 1, 0))

\* a * m for a small natural m (m < 2^20)
RECURSIVE BigMulSmallFrom(_, _, _, _)
BigMulSmallFrom(a, m, j, carry) ==
    IF j > Len(a)
    THEN BigFromNat(carry)
    ELSE LET p == a[j] * m + carry
         IN  <<p % LimbBase>> \o BigMulSmallFrom(a, m, j + 1, p \div LimbBase)

BigMulSmall(a, m) == Trim(BigMulSmallFrom(a, m, 1, 0))

RECURSIVE BigMul(_, _)
BigMul(a, c) ==
    IF c = <<>> \/ a = <<>> THEN <<>>
    ELSE BigAdd(BigMulSmall(a, Head(c)), Trim(<<0>> \o BigMul(a, Tail(c))))

RECURSIVE BigLessFrom(_, _, _)
BigLessFrom(a, c, j) ==
    IF j = 0 THEN FALSE
    ELSE IF a[j] # c[j] THEN a[j] < c[j]
    ELSE BigLessFrom(a, c, j - 1)

BigLess(a, c) ==
    IF Len(a) # Len(c) THEN Len(a) < Len(c) ELSE BigLessFrom(a, c, Len(a))

\* product of a sequence of small naturals, as Go folds a constant expression
RECURSIVE BigProd(_)
BigProd(ms) ==
    IF ms = <<>> THEN BigFromNat(1)
    ELSE BigMulSmall(BigProd(SubSeq(ms, 1, Len(ms) - 1)), ms[Len(ms)])

\* the value of a limb sequence that is known to be small
RECURSIVE BigToNat(_)
BigToNat(a) == IF a = <<>> THEN 0 ELSE Head(a) + LimbBase * BigToNat(Tail(a))

(***************************************************************************)
(* int64: [neg, mag] with mag a natural; zero is never negative.           *)
(***************************************************************************)
\* 2^63 and 2^64 in limbs
Two63 == <<0, 0, 0, 0, 0, 0, 0, 128>>
Two64 == <<0, 0, 0, 0, 0, 0, 0, 0, 1>>

I64(neg, mag) == [neg |-> neg /\ mag # <<>>, mag |-> mag]
I64FromNat(k) == I64(FALSE, BigFromNat(k))
I64Zero == I64(FALSE, <<>>)

\* whether the mathematical integer [neg, mag] is an int64 value
InInt64(x) ==
    IF x.neg THEN ~BigLess(Two63, x.mag) ELSE BigLess(x.mag, Two63)

\* a mod 2^64
Low64(a) == Trim(SubSeq(a, 1, Min(Len(a), 8)))

\* the int64 that Go's wrapping arithmetic yields for the integer x
Wrap64(x) ==
    LET m == Low64(x.mag)
        u == IF x.neg /\ m # <<>> THEN BigSub(Two64, m) ELSE m
    IN  IF BigLess(u, Two63) THEN I64(FALSE, u) ELSE I64(TRUE, BigSub(Two64, u))

\* the product of two integers, unbounded
IntMul(x, y) == I64(x.neg # y.neg, BigMul(x.mag, y.mag))

\* Go's int64 multiplication: the product wraps modulo 2^64
I64Mul(x, y) == Wrap64(IntMul(x, y))

I64Less(x, y) ==
    IF x.neg # y.neg THEN x.neg
    ELSE IF x.neg THEN BigLess(y.mag, x.mag)
    ELSE BigLess(x.mag, y.mag)

I64Positive(x) == ~x.neg /\ x.mag # <<>>

\* util.Int64Min
Int64Min(x, y) == IF I64Less(y, x) THEN y ELSE x

(***************************************************************************)
(* The size parser of src/main.go.                                         *)
(***************************************************************************)
Digits == <<"0", "1", "2", "3", "4", "5", "6", "7", "8", "9">>
DigitSet == {Digits[k] : k \in 1..10}
DigitVal(ch) == (CHOOSE k \in 1..10 : Digits[k] = ch) - 1

Nil == <<>>
ErrEmptySize == <<"empty size">>
ErrSizeMultiplier == <<"invalid size multiplier">>
ErrInvalidSize == <<"invalid size">>
ErrSyntax == <<"strconv: invalid syntax">>
ErrRange == <<"strconv: value out of range">>

isdigit(ch) == ch \in DigitSet

\* var sizeMults = map[byte]int64{...}: 'p' and 'P' carry four factors, as 't' and 'T'
sizeMults ==
    ("b" :> BigProd(<<1>>)) @@ ("B" :> BigProd(<<1>>)) @@
    ("k" :> BigProd(<<1000>>)) @@ ("K" :> BigProd(<<1024>>)) @@
    ("m" :> BigProd(<<1000, 1000>>)) @@ ("M" :> BigProd(<<1024, 1024>>)) @@
    ("g" :> BigProd(<<1000, 1000, 1000>>)) @@
    ("G" :> BigProd(<<1024, 1024, 1024>>)) @@
    ("t" :> BigProd(<<1000, 1000, 1000, 1000>>)) @@
    ("T" :> BigProd(<<1024, 1024, 1024, 1024>>)) @@
    ("p" :> BigProd(<<1000, 1000, 1000, 1000>>)) @@
    ("P" :> BigProd(<<1024, 1024, 1024, 1024>>))

\* strconv.ParseUint(s, 10, 64): digit by digit, a range error as soon as the
\* accumulated value leaves uint64, a syntax error at the first non-digit
RECURSIVE ParseUintFrom(_, _, _)
ParseUintFrom(s, j, acc) ==
    IF j > Len(s) THEN [val |-> acc, err |-> Nil]
    ELSE IF ~isdigit(s[j]) THEN [val |-> <<>>, err |-> ErrSyntax]
    ELSE LET n1 == BigAdd(BigMulSmall(acc, 10), BigFromNat(DigitVal(s[j])))
         IN  IF ~BigLess(n1, Two64)
             THEN [val |-> <<>>, err |-> ErrRange]
             ELSE ParseUintFrom(s, j + 1, n1)

ParseUint(s) ==
    IF s = <<>> THEN [val |-> <<>>, err |-> ErrSyntax]
    ELSE ParseUintFrom(s, 1, <<>>)

\* strconv.ParseInt(s, 10, 64): an optional sign, then ParseUint, then the
\* int64 range check
ParseInt(s) ==
    IF s = <<>> THEN [val |-> I64Zero, err |-> ErrSyntax]
    ELSE LET neg  == s[1] = "-"
             rest == IF s[1] \in {"+", "-"} THEN Tail(s) ELSE s
             un   == ParseUint(rest)
         IN  IF un.err # Nil THEN [val |-> I64Zero, err |-> un.err]
             ELSE IF ~InInt64(I64(neg, un.val))
                  THEN [val |-> I64Zero, err |-> ErrRange]
                  ELSE [val |-> I64(neg, un.val), err |-> Nil]

\* func getSize(v string) (int64, error)
getSize(v) ==
    IF Len(v) = 0 THEN [val |-> I64Zero, err |-> ErrEmptySize]
    ELSE LET suffix == v[Len(v)]
             hasSuf == ~isdigit(suffix)
             num    == IF hasSuf THEN SubSeq(v, 1, Len(v) - 1) ELSE v
         IN  IF hasSuf /\ suffix \notin DOMAIN sizeMults
             THEN [val |-> I64Zero, err |-> ErrSizeMultiplier]
             ELSE LET mult   == IF hasSuf THEN I64(FALSE, sizeMults[suffix])
                                ELSE I64FromNat(1)
                      parsed == ParseInt(num)
                  IN  IF parsed.err # Nil
                      THEN [val |-> I64Zero, err |-> ErrInvalidSize \o parsed.err]
                      ELSE [val |-> I64Mul(parsed.val, mult), err |-> Nil]

(***************************************************************************)
(* Names of the entries.                                                   *)
(***************************************************************************)
RECURSIVE Itoa(_)
Itoa(k) ==
    IF k < 10 THEN <<Digits[k + 1]>>
    ELSE Itoa(k \div 10) \o <<Digits[(k % 10) + 1]>>

\* fmt's %0<w>d: zeros on the left up to width w, never a truncation
ZeroPad(w, s) ==
    IF Len(s) >= w THEN s ELSE [j \in 1..(w - Len(s)) |-> "0"] \o s

NameWidth == 8

\* splittar.go: name := fmt.Sprintf("%08d", i)
SplitTarName(k) == ZeroPad(NameWidth, Itoa(k))

\* main.go: strings.Join([]string{baseName, fmt.Sprintf(padFmt, i)}, ".")
mainName(base, width, k) == base \o <<".">> \o ZeroPad(width, Itoa(k))

(***************************************************************************)
(* Errors are sequences of messages, outermost first; Nil is no error.     *)
(***************************************************************************)
EOF == <<"EOF">>
EIO == <<"input/output error">>
ErrWriteTooLong == <<"archive/tar: write too long">>
ErrWriteAfterClose == <<"archive/tar: write after close">>
ErrMissedWriting == <<"archive/tar: missed writing bytes">>
ErrBlockSize == <<"BlockSize cannot be <= 0">>

\* errors.ErrorfWithCause(err, msg, ...)
ErrorfWithCause(cause, msg) == <<msg>> \o cause

\* errors.WrapDeferred(&err, f): the error of the deferred call, if any, is
\* composed with the error the function already returns
WrapDeferred(e, closeErr) == IF closeErr = Nil THEN e ELSE closeErr \o e

(***************************************************************************)
(* The source: an io.ReadCloser over the bytes `data`.                     *)
(*   kind "file":   a regular file (os.File): every Read fills the request *)
(*                  as far as bytes remain; end-of-stream comes alone      *)
(*   kind "pipe":   standard input (os.File): short reads; end-of-stream   *)
(*                  comes alone                                            *)
(*   kind "reader": any io.Reader: short reads, reads of zero bytes with   *)
(*                  no error, and bytes together with end-of-stream or     *)
(*                  with another error                                     *)
(*   kind "nil":    no source was set on the Config                        *)
(* nop tells that the handle is an ioutil.NopCloser, whose Close does      *)
(* nothing and cannot fail.                                                *)
(* Any Read may fail with an error other than end-of-stream.  fault names  *)
(* the failure the environment injected, if any; last names what the       *)
(* latest Read returned, calls whether the number of Read calls made so    *)
(* far is even or odd (every Read is a step that changes the state).       *)
(***************************************************************************)
SrcBytes(len) == [j \in 1..len |-> j]

NewSource(kind, len) ==
    [kind |-> kind, data |-> SrcBytes(len), pos |-> 0,
     opened |-> FALSE, closed |-> 0, eof |-> FALSE, fault |-> "none",
     misuse |-> FALSE, last |-> "none", calls |-> "even", nop |-> FALSE]

\* the (n, err) pairs a Read into a slice of `want` bytes may return
ReadOutcomes(s, want) ==
    LET avail == Len(s.data) - s.pos
        m     == Min(want, avail)
    IN  {[k |-> k, e |-> Nil] :
            k \in {k \in 1..m : s.kind # "file" \/ k = m}}
        \cup (IF avail = 0 THEN {[k |-> 0, e |-> EOF]} ELSE {})
        \cup (IF s.kind = "reader" /\ avail > 0 /\ avail <= want
              THEN {[k |-> avail, e |-> EOF]} ELSE {})
        \cup (IF s.kind = "reader" THEN {[k |-> 0, e |-> Nil]} ELSE {})
        \cup (IF s.kind = "reader" THEN {[k |-> k, e |-> EIO] : k \in 1..m} ELSE {})
        \cup {[k |-> 0, e |-> EIO]}

\* what a Read returned: bytes, end-of-stream, another error, or zero bytes
\* and no error
ReadKind(r) ==
    IF r.e = EOF THEN "eof"
    ELSE IF r.e # Nil THEN "error"
    ELSE IF r.k = 0 THEN "stall"
    ELSE "data"

\* the source after a Read that returned r
SourceAfterRead(s, r) ==
    [s EXCEPT !.pos = s.pos + r.k,
              !.last = ReadKind(r),
              !.calls = IF @ = "even" THEN "odd" ELSE "even",
              !.eof = s.eof \/ r.e = EOF,
              !.fault = IF r.e \in {Nil, EOF} THEN @ ELSE "read",
              !.misuse = s.misuse \/ s.closed > 0]

\* buf after a Read into buf[off:] that returned r
BufAfterRead(buf, off, s, r) ==
    [j \in 1..Len(buf) |->
        IF off < j /\ j <= off + r.k THEN s.data[s.pos + (j - off)] ELSE buf[j]]

\* make([]byte, len)
MakeBuf(len) == [j \in 1..len |-> 0]

(***************************************************************************)
(* The tar.Header template.                                                *)
(***************************************************************************)
SentinelId == 999
HostUid == 1000
HostGid == 100

\* time.Now(): the one instant read when the template is built
Now == <<"now">>

\* func createTarHeader() tar.Header, with the answers of user.Current() and
\* user.LookupGroupId(u.Gid): a failed lookup is logged and replaced by the
\* sentinel user or the "<unknown>" group
createTarHeader(userOK, groupOK) ==
    LET u == IF userOK
             THEN [Uid |-> HostUid, Gid |-> HostGid, Username |-> "user"]
             ELSE [Uid |-> SentinelId, Gid |-> SentinelId, Username |-> "<unknown>"]
        g == IF groupOK
             THEN [Gid |-> u.Gid, Name |-> "group"]
             ELSE [Gid |-> u.Gid, Name |-> "<unknown>"]
    IN  [Typeflag |-> "TypeReg", Name |-> <<>>, Size |-> 0, Mode |-> "0444",
         Uid |-> u.Uid, Gid |-> g.Gid, Uname |-> u.Username, Gname |-> g.Name,
         ModTime |-> Now, AccessTime |-> Now, ChangeTime |-> Now,
         Format |-> "FormatPAX"]

\* main.go: h := tar.Header{...} from currentUser, uid and gid
mainHeader ==
    [Typeflag |-> "TypeReg", Name |-> <<>>, Size |-> 0, Mode |-> "0400",
     Uid |-> HostUid, Gid |-> HostGid, Uname |-> "user", Gname |-> "user",
     ModTime |-> Now, AccessTime |-> Now, ChangeTime |-> Now,
     Format |-> "FormatGNU"]

\* the zero tar.Header, before the template is built
NoHeader ==
    [Typeflag |-> "", Name |-> <<>>, Size |-> 0, Mode |-> "",
     Uid |-> 0, Gid |-> 0, Uname |-> "", Gname |-> "",
     ModTime |-> <<>>, AccessTime |-> <<>>, ChangeTime |-> <<>>, Format |-> ""]

\* SetNameSize that also stamps the header with a value of the chunk
SetNameSizeAndTime(hd, name, sz) ==
    [hd EXCEPT !.Name = name, !.Size = sz, !.ModTime = name]

\* h.Size = int64(read); h.Name = name: the template is changed in place
SetNameSize(hd, name, sz) == [hd EXCEPT !.Name = name, !.Size = sz]

(***************************************************************************)
(* The target: a tar.Writer (archive/tar) over a file.                     *)
(*   nb       bytes of the current entry still to be written               *)
(*   twerr    tar.Writer's sticky error                                    *)
(*   entries  the headers written, each with the body bytes accepted       *)
(*   log      the calls made on the writer, in order, with their results   *)
(*   kind     what the writer writes to: a "file" the program creates,     *)
(*            "stdout", a "writer" of the caller; "nil" when no target was *)
(*            set on the Config                                            *)
(***************************************************************************)
NewTarget ==
    [created |-> FALSE, nb |-> 0, twerr |-> Nil, entries |-> <<>>,
     closed |-> 0, fileClosed |-> 0, footer |-> FALSE, fault |-> "none",
     misuse |-> FALSE, log |-> <<>>, kind |-> "file"]

\* one call on the tar.Writer: the header size or the number of bytes
\* offered, the count returned and the error returned
Call(op, arg, cnt, e) == [op |-> op, arg |-> arg, n |-> cnt, err |-> e]

\* tar.Writer.Flush, without its write of the padding
TarFlushErr(t) ==
    IF t.twerr # Nil THEN t.twerr
    ELSE IF t.nb > 0 THEN ErrMissedWriting
    ELSE Nil

\* tar.Writer.WriteHeader(&hd); ioFail: the write to the underlying file fails
TarWriteHeader(t, hd, ioFail) ==
    LET t0 == [t EXCEPT !.misuse = t.misuse \/ t.closed > 0]
        e  == IF TarFlushErr(t0) # Nil THEN TarFlushErr(t0)
              ELSE IF ioFail THEN EIO ELSE Nil
        t1 == [t0 EXCEPT !.log = Append(@, Call("WriteHeader", hd.Size, 0, e))]
    IN  IF TarFlushErr(t0) # Nil THEN [t |-> t1, err |-> e]
        ELSE IF ioFail
        THEN [t |-> [t1 EXCEPT !.twerr = EIO, !.fault = "header"], err |-> e]
        ELSE [t |-> [t1 EXCEPT
                        !.nb = hd.Size,
                        !.entries = Append(t1.entries,
                            [name |-> hd.Name, size |-> hd.Size, body |-> <<>>,
                             offered |-> 0, hdr |-> hd])],
              err |-> Nil]

\* tar.Writer.Write(p): at most nb bytes are accepted; offering more yields
\* ErrWriteTooLong after the accepted bytes were written
TarWrite(t, p, ioFail) ==
    LET t0        == [t EXCEPT !.misuse = t.misuse \/ t.closed > 0]
        overwrite == Len(p) > t0.nb
        acc       == SubSeq(p, 1, Min(Len(p), t0.nb))
        last      == Len(t0.entries)
        e         == IF t0.twerr # Nil THEN t0.twerr
                     ELSE IF Len(acc) > 0 /\ ioFail THEN EIO
                     ELSE IF overwrite THEN ErrWriteTooLong
                     ELSE Nil
        cnt       == IF t0.twerr # Nil \/ (Len(acc) > 0 /\ ioFail) THEN 0
                     ELSE Len(acc)
        t1        == [t0 EXCEPT !.log = Append(@, Call("Write", Len(p), cnt, e))]
        t2        == IF last = 0 THEN t1
                     ELSE [t1 EXCEPT !.entries[last].offered = @ + Len(p)]
    IN  IF t0.twerr # Nil THEN [t |-> t1, n |-> 0, err |-> e]
        ELSE IF Len(acc) > 0 /\ ioFail
        THEN [t |-> [t2 EXCEPT !.twerr = EIO, !.fault = "body"],
              n |-> 0, err |-> e]
        ELSE [t |-> IF Len(acc) = 0 THEN t2
                    ELSE [t2 EXCEPT !.nb = @ - Len(acc),
                                    !.entries[last].body = @ \o acc],
              n |-> cnt,
              err |-> e]

\* tar.Writer.Close(): flushes, writes the footer, and makes later use fail
TarClose(t, ioFail) ==
    LET e  == IF t.twerr = ErrWriteAfterClose THEN Nil
              ELSE IF t.twerr # Nil THEN t.twerr
              ELSE IF TarFlushErr(t) # Nil THEN TarFlushErr(t)
              ELSE IF ioFail THEN EIO ELSE Nil
        t0 == [t EXCEPT !.closed = @ + 1,
                        !.log = Append(@, Call("Close", 0, 0, e))]
    IN  IF t.twerr = ErrWriteAfterClose THEN [t |-> t0, err |-> e]
        ELSE IF t.twerr # Nil THEN [t |-> t0, err |-> e]
        ELSE IF TarFlushErr(t) # Nil
        THEN [t |-> [t0 EXCEPT !.twerr = ErrWriteAfterClose], err |-> e]
        ELSE IF ioFail
        THEN [t |-> [t0 EXCEPT !.twerr = ErrWriteAfterClose, !.fault = "footer"],
              err |-> e]
        ELSE [t |-> [t0 EXCEPT !.twerr = ErrWriteAfterClose, !.footer = TRUE],
              err |-> e]

(***************************************************************************)
(* Bounds of the model and constants of the program.                       *)
(***************************************************************************)
MaxSrcLen == 11
MaxBlock == 3
MaxLen == 3
IOBufSize == 32768
DefaultSuffixLength == 2

(***************************************************************************)
(* splittar.SplitTar (src/splittar.go), one action per step of its loops.  *)
(***************************************************************************)
\* func BlockSize(size int) Option: the error of applying the option
BlockSize(sz) == IF sz <= 0 THEN ErrBlockSize ELSE Nil

\* the answers of the host's identity lookups, before any was asked
NoHost == [user |-> "unasked", group |-> "unasked"]

Answer(ok) == IF ok THEN "ok" ELSE "failed"

\* func NewConfig(options ...Option) (*Config, error), called by a user of
\* the package: the options are applied in turn; SourceFilename opens the
\* file, and its error is the error of NewConfig, after which there is no
\* Config to run SplitTar on
NewConfig ==
    /\ pc = "NewConfig" /\ prog = "lib"
    /\ IF cfg.blockOption /\ BlockSize(cfg.block) # Nil
       THEN /\ err' = BlockSize(cfg.block)
            /\ pc' = "done"
            /\ exit' = "return"
            /\ UNCHANGED source
       ELSE IF cfg.sourceOption # "SourceFilename"
       THEN /\ pc' = "SplitTar"
            /\ UNCHANGED <<source, err, exit>>
       ELSE \E ok \in BOOLEAN :
            IF ok
            THEN /\ source' = [source EXCEPT !.opened = TRUE]
                 /\ pc' = "SplitTar"
                 /\ UNCHANGED <<err, exit>>
            ELSE /\ err' = ErrorfWithCause(EIO, "failed to open source file")
                 /\ pc' = "done"
                 /\ exit' = "return"
                 /\ source' = [source EXCEPT !.fault = "open"]
    /\ UNCHANGED <<h, host, prog, started, sizeString, size, cfg, target, b, i, n, read, written>>

\* b := make([]byte, c.block); h := createTarHeader(); the two defers;
\* entry into the first iteration of the loop.  With no source on the Config
\* the method value c.source.Close of the first defer statement panics.
SplitTarBegin ==
    /\ pc = "SplitTar"
    /\ b' = MakeBuf(cfg.block)
    /\ \E userOK \in BOOLEAN, groupOK \in BOOLEAN :
        /\ h' = createTarHeader(userOK, groupOK)
        /\ host' = [user |-> Answer(userOK), group |-> Answer(groupOK)]
    /\ i' = 0 /\ n' = 0 /\ read' = 0 /\ written' = 0 /\ err' = Nil
    /\ IF source.kind = "nil"
       THEN /\ pc' = "done"
            /\ exit' = "panic"
            /\ UNCHANGED started
       ELSE /\ pc' = IF 0 < cfg.block THEN "read" ELSE "flush"
            /\ started' = TRUE
            /\ UNCHANGED exit
    /\ UNCHANGED <<prog, sizeString, size, cfg, source, target>>

\* AfterRead with end-of-stream treated like a Read of no bytes
AfterReadOnAtEOF(e, rd, len) ==
    IF e = Nil \/ e = EOF THEN (IF rd < len THEN "read" ELSE "flush")
    ELSE "closeTarget"

\* AfterRead with a failed Read treated like end-of-stream
AfterReadFlushOnError(e, rd, len) ==
    IF e = Nil THEN (IF rd < len THEN "read" ELSE "flush")
    ELSE "flush"

\* where SplitTar goes after a Read that returned error e, with rd bytes then
\* in a buffer of len bytes: on, out of the read loop, or out of the function
AfterRead(e, rd, len) ==
    IF e = Nil THEN (IF rd < len THEN "read" ELSE "flush")
    ELSE IF e = EOF THEN "flush"
    ELSE "closeTarget"

\* one pass of: for read = 0; read < len(b); read += n { n, err = c.source.Read(b[read:]) ... }
\* The break on io.EOF leaves the loop before its post statement read += n.
SplitTarRead ==
    /\ pc = "read"
    /\ \E r \in ReadOutcomes(source, Len(b) - read) :
        /\ source' = SourceAfterRead(source, r)
        /\ b' = BufAfterRead(b, read, source, r)
        /\ n' = r.k
        /\ read' = IF r.e = Nil THEN read + r.k ELSE read
        /\ err' = IF r.e \in {Nil, EOF} THEN r.e
                  ELSE ErrorfWithCause(r.e, "failed to read next chunk from source")
        /\ pc' = AfterRead(r.e, read', Len(b))
    /\ UNCHANGED <<h, host, prog, started, exit, sizeString, size, cfg, target, i, written>>

\* NoBytesRead that never holds
NoBytesReadNever(rd) == FALSE

\* if read == 0 (splittar.go), if c == 0 (main.go): the fill attempt yielded
\* nothing
NoBytesRead(rd) == rd = 0

\* EndOfStreamDiscarded that keeps every error
EndOfStreamKept(e) == e

\* if err == io.EOF { err = nil }
EndOfStreamDiscarded(e) == IF e = EOF THEN Nil ELSE e

\* AfterWriteHeader that goes on to the body after a failed WriteHeader
AfterWriteHeaderGoOn(e) == "write"

\* where SplitTar goes after WriteHeader returned e
AfterWriteHeader(e) == IF e # Nil THEN "closeTarget" ELSE "write"

\* if read == 0 { ...; break }; h.Size, h.Name; err = c.target.WriteHeader(&h).
\* With no target on the Config, c.target is a nil *tar.Writer and the call
\* of WriteHeader panics; the deferred calls run.
SplitTarFlush ==
    /\ pc = "flush"
    /\ IF NoBytesRead(read)
       THEN /\ err' = EndOfStreamDiscarded(err)
            /\ pc' = "closeTarget"
            /\ UNCHANGED <<target, written, h, exit>>
       ELSE IF target.kind = "nil"
       THEN /\ h' = SetNameSize(h, SplitTarName(i), read)
            /\ pc' = "closeTarget"
            /\ exit' = "panic"
            /\ UNCHANGED <<target, written, err>>
       ELSE \E ioFail \in BOOLEAN :
            LET hd == SetNameSize(h, SplitTarName(i), read)
                w  == TarWriteHeader(target, hd, ioFail)
            IN  /\ h' = hd
                /\ target' = w.t
                /\ written' = 0
                /\ err' = IF w.err # Nil
                          THEN ErrorfWithCause(w.err, "failed to write header to tar")
                          ELSE Nil
                /\ pc' = AfterWriteHeader(w.err)
                /\ UNCHANGED exit
    /\ UNCHANGED <<host, prog, started, sizeString, size, cfg, source, b, i, n, read>>

\* AfterWrite that goes on to the next chunk after a failed Write
AfterWriteGoOn(e, wr, rd) == IF e = Nil /\ wr < rd THEN "write" ELSE "next"

\* where SplitTar goes after a Write returned e, with wr bytes of the rd then
\* written: out of the function, on in the write loop, or to the next chunk
AfterWrite(e, wr, rd) ==
    IF e # Nil THEN "closeTarget"
    ELSE IF wr < rd THEN "write"
    ELSE "next"

\* one pass of: for written := 0; written < read; written += n { n, err = c.target.Write(b[written:]) ... }
\* and, when the loop ends, the step i++ into the next iteration
SplitTarWrite ==
    /\ pc = "write"
    /\ \E ioFail \in BOOLEAN :
        LET w    == TarWrite(target, SubSeq(b, written + 1, Len(b)), ioFail)
            goto == AfterWrite(w.err, written + w.n, read)
        IN  /\ target' = w.t
            /\ err' = IF w.err # Nil
                      THEN ErrorfWithCause(w.err, "failed to write chunk to writer")
                      ELSE Nil
            /\ IF goto = "closeTarget"
               THEN /\ n' = w.n
                    /\ pc' = "closeTarget"
                    /\ UNCHANGED <<written, i, read>>
               ELSE IF goto = "write"
               THEN /\ n' = w.n
                    /\ written' = written + w.n
                    /\ pc' = "write"
                    /\ UNCHANGED <<i, read>>
               ELSE /\ i' = i + 1
                    /\ n' = 0
                    /\ written' = written + w.n
                    /\ read' = 0
                    /\ pc' = IF 0 < Len(b) THEN "read" ELSE "flush"
    /\ UNCHANGED <<h, host, prog, started, exit, sizeString, size, cfg, source, b>>

\* defer errors.WrapDeferred(&err, c.target.Close): runs first on return;
\* Close on a nil *tar.Writer panics, and the other deferred call still runs
SplitTarCloseTarget ==
    /\ pc = "closeTarget"
    /\ IF target.kind = "nil"
       THEN /\ exit' = "panic"
            /\ UNCHANGED <<target, err>>
       ELSE \E ioFail \in BOOLEAN :
            LET c == TarClose(target, ioFail)
            IN  /\ target' = c.t
                /\ err' = WrapDeferred(err, c.err)
                /\ UNCHANGED exit
    /\ pc' = "closeSource"
    /\ UNCHANGED <<h, host, prog, started, sizeString, size, cfg, source, b, i, n, read, written>>

\* defer errors.WrapDeferred(&err, c.source.Close): runs last; the Close of
\* an ioutil.NopCloser returns nil.  SplitTar returns, or goes on panicking,
\* and the front end dies on a non-nil error
SplitTarCloseSource ==
    /\ pc = "closeSource"
    /\ \E fail \in {f \in BOOLEAN : source.nop => ~f} :
        /\ source' = [source EXCEPT !.closed = @ + 1,
                                    !.fault = IF fail /\ @ = "none" THEN "close" ELSE @]
        /\ err' = WrapDeferred(err, IF fail THEN EIO ELSE Nil)
    /\ pc' = "done"
    /\ exit' = IF exit = "panic" THEN "panic"
               ELSE IF prog = "cmd" /\ err' # Nil THEN "os.Exit"
               ELSE "return"
    /\ UNCHANGED <<h, host, prog, started, sizeString, size, cfg, target, b, i, n, read, written>>

(***************************************************************************)
(* The front end of src/unnamed/part_001: splitTar(sourceName, targetName, *)
(* block).                                                                 *)
(***************************************************************************)
\* source, err := getSourceFile(sourceName, ioutil.NopCloser(os.Stdin))
splitTarGetSource ==
    /\ pc = "getSourceFile"
    /\ IF source.kind # "file"
       THEN /\ pc' = "getTargetFile"
            /\ UNCHANGED <<source, err, exit>>
       ELSE \E ok \in BOOLEAN :
            IF ok
            THEN /\ source' = [source EXCEPT !.opened = TRUE]
                 /\ pc' = "getTargetFile"
                 /\ UNCHANGED <<err, exit>>
            ELSE /\ err' = ErrorfWithCause(EIO, "failed to get source file")
                 /\ pc' = "done"
                 /\ exit' = "os.Exit"
                 /\ source' = [source EXCEPT !.fault = "open"]
    /\ UNCHANGED <<h, host, prog, started, sizeString, size, cfg, target, b, i, n, read, written>>

\* target, err := getTargetFile(targetName, nopWriteCloser{os.Stdout}):
\* with the name "" or "-" the target is standard output and nothing is
\* created; otherwise os.Create creates or truncates the file
splitTarGetTarget ==
    /\ pc = "getTargetFile"
    /\ IF target.kind # "file"
       THEN /\ pc' = "NewConfig"
            /\ UNCHANGED <<target, err, exit>>
       ELSE \E ok \in BOOLEAN :
        IF ok
        THEN /\ target' = [target EXCEPT !.created = TRUE]
             /\ pc' = "NewConfig"
             /\ UNCHANGED <<err, exit>>
        ELSE /\ err' = ErrorfWithCause(EIO, "failed to get target file")
             /\ pc' = "done"
             /\ exit' = "os.Exit"
             /\ target' = [target EXCEPT !.fault = "create"]
    /\ UNCHANGED <<h, host, prog, started, sizeString, size, cfg, source, b, i, n, read, written>>

\* c, err := splittar.NewConfig(splittar.BlockSize(block), ...); on an error
\* splitTar returns it and main dies
splitTarNewConfig ==
    /\ pc = "NewConfig" /\ prog = "cmd"
    /\ IF BlockSize(cfg.block) # Nil
       THEN /\ err' = ErrorfWithCause(BlockSize(cfg.block),
                                      "failed to initialize splittar config")
            /\ pc' = "done"
            /\ exit' = "os.Exit"
       ELSE /\ pc' = "SplitTar"
            /\ UNCHANGED <<err, exit>>
    /\ UNCHANGED <<h, host, prog, started, sizeString, size, cfg, source, target, b, i, n, read, written>>

(***************************************************************************)
(* The front end of src/main.go.  exitOnError ends the process with        *)
(* os.Exit, which runs no deferred call.                                   *)
(***************************************************************************)
\* var currentUser = mustGetCurrentUser(): the package's variables are
\* initialised before main runs, and a failed user.Current() panics
mainInit ==
    /\ pc = "init"
    /\ \E userOK \in BOOLEAN :
        /\ host' = [host EXCEPT !.user = Answer(userOK)]
        /\ IF userOK
           THEN /\ pc' = "getSize"
                /\ UNCHANGED exit
           ELSE /\ pc' = "done"
                /\ exit' = "panic"
    /\ UNCHANGED <<h, prog, started, sizeString, size, cfg, source, target, b, i, n, read, written, err>>

\* size, err := getSize(sizeString); exitOnError(err)
mainGetSize ==
    /\ pc = "getSize" /\ prog = "main"
    /\ size' = getSize(sizeString)
    /\ IF size'.err # Nil
       THEN /\ err' = size'.err
            /\ pc' = "done"
            /\ exit' = "os.Exit"
       ELSE /\ pc' = "open"
            /\ UNCHANGED <<err, exit>>
    /\ UNCHANGED <<h, host, prog, started, sizeString, cfg, source, target, b, i, n, read, written>>

\* source, err = os.Open(srcFileName); exitOnError(err);
\* fi, err := source.Stat(); exitOnError(err); if fs < size { size = fs }
mainOpen ==
    /\ pc = "open"
    /\ IF source.kind # "file"
       THEN /\ pc' = "create"
            /\ UNCHANGED <<source, size, err, exit>>
       ELSE \E ok \in BOOLEAN, statOK \in BOOLEAN :
            IF ok /\ statOK
            THEN LET fs == I64FromNat(Len(source.data))
                 IN  /\ source' = [source EXCEPT !.opened = TRUE]
                     /\ size' = [size EXCEPT
                                   !.val = IF I64Less(fs, size.val) THEN fs ELSE @]
                     /\ pc' = "create"
                     /\ UNCHANGED <<err, exit>>
            ELSE IF ok
            THEN /\ err' = EIO
                 /\ pc' = "done"
                 /\ exit' = "os.Exit"
                 /\ source' = [source EXCEPT !.opened = TRUE, !.fault = "stat"]
                 /\ UNCHANGED size
            ELSE /\ err' = EIO
                 /\ pc' = "done"
                 /\ exit' = "os.Exit"
                 /\ source' = [source EXCEPT !.fault = "open"]
                 /\ UNCHANGED size
    /\ UNCHANGED <<h, host, prog, started, sizeString, cfg, target, b, i, n, read, written>>

\* if tarFileName != "" && tarFileName != "-" { target, err =
\* os.Create(tarFileName); exitOnError(err) }; tarFile := tar.NewWriter(target)
mainCreate ==
    /\ pc = "create"
    /\ IF target.kind # "file"
       THEN /\ pc' = "make"
            /\ UNCHANGED <<target, err, exit>>
       ELSE \E ok \in BOOLEAN :
        IF ok
        THEN /\ target' = [target EXCEPT !.created = TRUE]
             /\ pc' = "make"
             /\ UNCHANGED <<err, exit>>
        ELSE /\ err' = EIO
             /\ pc' = "done"
             /\ exit' = "os.Exit"
             /\ target' = [target EXCEPT !.fault = "create"]
    /\ UNCHANGED <<h, host, prog, started, sizeString, size, cfg, source, b, i, n, read, written>>

\* the deferred calls of main, in the order they run: tarFile.Close(), whose
\* error is dropped, then target.Close() when a target file was created
mainDeferredTarget(t, ioFail) ==
    LET c == TarClose(t, ioFail).t
    IN  IF t.kind = "file" THEN [c EXCEPT !.fileClosed = @ + 1] ELSE c

\* ... and last source.Close() when a source file was opened
mainDeferredSource(s) ==
    IF s.kind = "file" THEN [s EXCEPT !.closed = @ + 1] ELSE s

\* b := make([]byte, util.Int64Min(size, 32768)): a negative length panics,
\* and the panic runs the deferred calls; h := tar.Header{...}
mainMake ==
    /\ pc = "make"
    /\ LET len == Int64Min(size.val, I64FromNat(IOBufSize))
       IN  IF len.neg
           THEN /\ pc' = "done"
                /\ exit' = "panic"
                /\ \E ioFail \in BOOLEAN :
                    target' = mainDeferredTarget(target, ioFail)
                /\ source' = mainDeferredSource(source)
                /\ UNCHANGED <<b, i, read, started, h>>
           ELSE /\ b' = MakeBuf(BigToNat(len.mag))
                /\ h' = mainHeader
                /\ i' = 0
                /\ read' = 0
                /\ pc' = IF 0 < Len(b') THEN "m_read" ELSE "m_flush"
                /\ started' = TRUE
                /\ UNCHANGED <<exit, source, target>>
    /\ UNCHANGED <<host, prog, sizeString, size, cfg, n, written, err>>

\* one pass of readblock: n, err := source.Read(b[c:]); c += n;
\* if err == io.EOF { break readblock }; exitOnError(err)
mainRead ==
    /\ pc = "m_read"
    /\ \E r \in ReadOutcomes(source, Len(b) - read) :
        /\ source' = SourceAfterRead(source, r)
        /\ b' = BufAfterRead(b, read, source, r)
        /\ n' = r.k
        /\ read' = read + r.k
        /\ IF r.e = EOF
           THEN /\ pc' = "m_flush"
                /\ UNCHANGED <<err, exit>>
           ELSE IF r.e # Nil
           THEN /\ err' = r.e
                /\ pc' = "done"
                /\ exit' = "os.Exit"
           ELSE /\ pc' = IF read' < Len(b) THEN "m_read" ELSE "m_flush"
                /\ UNCHANGED <<err, exit>>
    /\ UNCHANGED <<h, host, prog, started, sizeString, size, cfg, target, i, written>>

\* if c == 0 { break readfile }; h.Name, h.Size; err = tarFile.WriteHeader(&h); exitOnError(err)
mainFlush ==
    /\ pc = "m_flush"
    /\ IF NoBytesRead(read)
       THEN /\ pc' = "m_return"
            /\ UNCHANGED <<target, err, exit, h>>
       ELSE \E ioFail \in BOOLEAN :
            LET hd == SetNameSize(h, mainName(cfg.baseName, cfg.suffixLength, i), read)
                w  == TarWriteHeader(target, hd, ioFail)
            IN  /\ h' = hd
                /\ target' = w.t
                /\ err' = w.err
                /\ IF w.err # Nil
                   THEN /\ pc' = "done"
                        /\ exit' = "os.Exit"
                   ELSE /\ pc' = "m_write"
                        /\ UNCHANGED exit
    /\ UNCHANGED <<host, prog, started, sizeString, size, cfg, source, b, i, n, read, written>>

\* w, err := tarFile.Write(b); exitOnError(err); a count w != c is only
\* reported; then i++ into the next iteration
mainWrite ==
    /\ pc = "m_write"
    /\ \E ioFail \in BOOLEAN :
        LET w == TarWrite(target, b, ioFail)
        IN  /\ target' = w.t
            /\ written' = w.n
            /\ err' = w.err
            /\ IF w.err # Nil
               THEN /\ pc' = "done"
                    /\ exit' = "os.Exit"
                    /\ UNCHANGED <<i, read>>
               ELSE /\ i' = i + 1
                    /\ read' = 0
                    /\ pc' = IF 0 < Len(b) THEN "m_read" ELSE "m_flush"
                    /\ UNCHANGED exit
    /\ UNCHANGED <<h, host, prog, started, sizeString, size, cfg, source, b, n>>

\* main returns: the deferred tarFile.Close(), for a target file
\* target.Close() and, for a source file, source.Close() run, in that order
mainReturn ==
    /\ pc = "m_return"
    /\ \E ioFail \in BOOLEAN :
        target' = mainDeferredTarget(target, ioFail)
    /\ source' = mainDeferredSource(source)
    /\ pc' = "done"
    /\ exit' = "return"
    /\ UNCHANGED <<h, host, prog, started, sizeString, size, cfg, b, i, n, read, written, err>>

(***************************************************************************)
(* getSize on its own.                                                     *)
(***************************************************************************)
getSizeCall ==
    /\ pc = "getSize" /\ prog = "size"
    /\ size' = getSize(sizeString)
    /\ pc' = "done"
    /\ exit' = "return"
    /\ UNCHANGED <<h, host, prog, started, sizeString, cfg, source, target, b, i, n, read, written, err>>

(***************************************************************************)
(* Initial states.                                                         *)
(***************************************************************************)
NoSize == [val |-> I64Zero, err |-> Nil]

\* blockOption, sourceOption and targetOption name the options handed to
\* NewConfig; the front ends hand over BlockSize, Source and TargetWriter
NewCfg(block, base, width) ==
    [block |-> block, baseName |-> base, suffixLength |-> width,
     blockOption |-> TRUE, sourceOption |-> "Source",
     targetOption |-> "TargetWriter"]

Locals ==
    /\ started = FALSE /\ exit = "running"
    /\ b = <<>> /\ i = 0 /\ n = 0 /\ read = 0 /\ written = 0 /\ err = Nil
    /\ h = NoHeader /\ host = NoHost

\* the source a caller of the package describes with its source option:
\* Source(r) takes any io.ReadCloser, SourceReader(r) wraps any io.Reader in
\* ioutil.NopCloser, SourceFilename(name) names a file NewConfig is to open,
\* and without a source option c.source stays nil
LibSource(option, len) ==
    IF option = "Source"
    THEN [NewSource("reader", len) EXCEPT !.opened = TRUE]
    ELSE IF option = "SourceReader"
    THEN [NewSource("reader", len) EXCEPT !.opened = TRUE, !.nop = TRUE]
    ELSE IF option = "SourceFilename"
    THEN NewSource("file", len)
    ELSE [NewSource("nil", 0) EXCEPT !.fault = "nil"]

\* the target a caller of the package describes with its target option:
\* TargetWriter(w) wraps w in a new tar.Writer; Target(tw) takes the caller's
\* tar.Writer as it is: new, with an entry whose body is not yet written, or
\* closed; without a target option c.target stays nil.  entries, log and
\* closed record what SplitTar does with the writer.
LibTarget(option, state) ==
    LET w == [NewTarget EXCEPT !.kind = "writer", !.created = TRUE]
    IN  IF option = "TargetWriter" \/ (option = "Target" /\ state = "new")
        THEN w
        ELSE IF option = "Target" /\ state = "pending"
        THEN [w EXCEPT !.nb = 1, !.fault = "used"]
        ELSE IF option = "Target" /\ state = "closed"
        THEN [w EXCEPT !.twerr = ErrWriteAfterClose, !.fault = "used"]
        ELSE [NewTarget EXCEPT !.kind = "nil", !.fault = "nil"]

\* the source option, target option and state of the caller's tar.Writer of
\* the calls of NewConfig tried
LibOptions ==
    {<<"Source", "Target", "new">>, <<"Source", "Target", "pending">>,
     <<"Source", "Target", "closed">>, <<"SourceReader", "TargetWriter", "new">>,
     <<"SourceFilename", "TargetWriter", "new">>,
     <<"none", "TargetWriter", "new">>, <<"Source", "none", "new">>}

\* a caller of the package: NewConfig with BlockSize(block), or without it
\* (c.block stays 0), a source option and a target option, then SplitTar
InitLib ==
    /\ prog = "lib" /\ pc = "NewConfig"
    /\ sizeString = <<>> /\ size = NoSize
    /\ \E block \in (-1)..MaxBlock, given \in BOOLEAN, o \in LibOptions,
          len \in 0..MaxSrcLen :
        /\ ~given => block = 0
        /\ o[1] = "none" => len = 0
        /\ cfg = [NewCfg(block, <<>>, NameWidth) EXCEPT
                    !.blockOption = given, !.sourceOption = o[1],
                    !.targetOption = o[2]]
        /\ source = LibSource(o[1], len)
        /\ target = LibTarget(o[2], o[3])
    /\ Locals

\* part_001 with -b block and a source file or standard input
InitCmd ==
    /\ prog = "cmd" /\ pc = "getSourceFile"
    /\ sizeString = <<>> /\ size = NoSize
    /\ \E block \in (-1)..MaxBlock : cfg = NewCfg(block, <<>>, NameWidth)
    /\ \E len \in 0..MaxSrcLen, kind \in {"file", "pipe"} :
        source = [NewSource(kind, len) EXCEPT !.nop = (kind = "pipe")]
    /\ \E tkind \in {"file", "stdout"} :
        target = [NewTarget EXCEPT !.kind = tkind]
    /\ Locals

\* the -b arguments tried on main.go
mainSizeStrings ==
    {Itoa(k) : k \in 0..MaxBlock}
    \cup {<<>>, <<"-", "1">>, <<"5", "x">>, <<"1", "k">>}

\* a -b argument beyond the 32768 bytes of main.go's buffer
BigSizeString == <<"1", "m">>

\* main.go with -b sizeString, -a width, a source file "f" or standard
\* input, and a target file or standard output
InitMainSmall ==
    /\ prog = "main" /\ pc = "init"
    /\ sizeString \in mainSizeStrings /\ size = NoSize
    /\ \E len \in 0..MaxSrcLen, kind \in {"file", "pipe"},
          width \in {1, DefaultSuffixLength} :
        /\ source = NewSource(kind, len)
        /\ cfg = NewCfg(0, IF kind = "file" THEN <<"f">> ELSE <<"-">>, width)
    /\ \E tkind \in {"file", "stdout"} :
        target = [NewTarget EXCEPT !.kind = tkind]
    /\ Locals

\* main.go with -b 1m on a file one byte longer than main.go's buffer
InitMainBig ==
    /\ prog = "main" /\ pc = "init"
    /\ sizeString = BigSizeString /\ size = NoSize
    /\ source = NewSource("file", IOBufSize + 1)
    /\ cfg = NewCfg(0, <<"f">>, DefaultSuffixLength)
    /\ target = NewTarget
    /\ Locals

InitMain == InitMainSmall \/ InitMainBig

Init == InitLib \/ InitCmd \/ InitMain

Next ==
    \/ NewConfig
    \/ SplitTarBegin
    \/ SplitTarRead
    \/ SplitTarFlush
    \/ SplitTarWrite
    \/ SplitTarCloseTarget
    \/ SplitTarCloseSource
    \/ splitTarGetSource
    \/ splitTarGetTarget
    \/ splitTarNewConfig
    \/ mainInit
    \/ mainGetSize
    \/ mainOpen
    \/ mainCreate
    \/ mainMake
    \/ mainRead
    \/ mainFlush
    \/ mainWrite
    \/ mainReturn

Spec == Init /\ [][Next]_vars

(***************************************************************************)
(* The inputs of getSize: every string of at most MaxLen characters over   *)
(* Alphabet, and longer strings around the int64 limits and the examples   *)
(* of the documentation.                                                   *)
(***************************************************************************)
Suffixes == {"b", "B", "k", "K", "m", "M", "g", "G", "t", "T", "p", "P"}
Alphabet == {"0", "1", "2", "9", "-", "+", "x"} \cup Suffixes

Strings(len) == UNION {[1..k -> Alphabet] : k \in 0..len}

\* the decimal digits ds as a string
Str(ds) == [j \in 1..Len(ds) |-> Digits[ds[j] + 1]]

MaxInt64Str == Str(<<9, 2, 2, 3, 3, 7, 2, 0, 3, 6, 8, 5, 4, 7, 7, 5, 8, 0, 7>>)
MinInt64Mag == Str(<<9, 2, 2, 3, 3, 7, 2, 0, 3, 6, 8, 5, 4, 7, 7, 5, 8, 0, 8>>)

LongStrings ==
    {MaxInt64Str, MinInt64Mag, <<"-">> \o MinInt64Mag, <<"-">> \o MaxInt64Str,
     Str(<<1, 0, 2, 4>>), Str(<<3, 2, 7, 6, 8>>), Str(<<1, 2>>) \o <<"x", "2", "k">>,
     Str(<<1, 8, 4, 4, 6, 7, 4, 4, 0, 7, 3, 7, 0, 9, 5, 5, 1, 6, 1, 6>>),
     Str(<<1, 8, 4, 4, 6, 7, 4, 4, 0, 7, 3, 7, 0, 9, 5, 5, 1, 6, 1, 5>>)}
    \cup {ds \o <<suf>> :
            ds \in {MaxInt64Str, Str(<<8, 3, 8, 8, 6, 0, 8>>),
                    Str(<<8, 3, 8, 8, 6, 0, 7>>), Str(<<9, 2, 2, 3, 3, 7, 3>>),
                    Str(<<9, 2, 2, 3, 3, 7, 2>>), Str(<<1, 6, 7, 7, 7, 2, 1, 6>>)},
            suf \in Suffixes}

SizeInputs == Strings(MaxLen) \cup LongStrings

InitSize ==
    /\ prog = "size" /\ pc = "getSize"
    /\ sizeString \in SizeInputs /\ size = NoSize
    /\ cfg = NewCfg(0, <<>>, NameWidth)
    /\ source = NewSource("file", 0)
    /\ target = NewTarget
    /\ Locals

NextSize == getSizeCall

SpecSize == InitSize /\ [][NextSize]_vars

(***************************************************************************)
(* Properties.                                                             *)
(***************************************************************************)
Done == pc = "done"

\* the environment injected no failure: every open, read, write and close
\* it was asked for succeeded
NoFault == source.fault = "none" /\ target.fault = "none"

\* the chunk size the run was configured with
ChunkSize ==
    IF prog = "main"
    THEN LET g == getSize(sizeString)
         IN  IF g.err = Nil /\ ~g.val.neg THEN BigToNat(g.val.mag) ELSE 0
    ELSE cfg.block

\* the Config has a source and a target: SplitTar dereferences neither nil
ValidConfig == source.kind # "nil" /\ target.kind # "nil"

Entries == target.entries
EntrySizes == [k \in 1..Len(Entries) |-> Entries[k].size]

\* ceil(len/c) sizes: c, ..., c and a last one of len mod c unless that is 0
ExpectedSizes(len, c) ==
    [k \in 1..((len + c - 1) \div c) |-> IF k * c <= len THEN c ELSE len % c]

RECURSIVE Bodies(_)
Bodies(es) == IF es = <<>> THEN <<>> ELSE Head(es).body \o Bodies(Tail(es))

Range(f) == {f[x] : x \in DOMAIN f}

\* C1: a run over an n-byte source (a file or a pipe) with chunk size c > 0,
\* in which no operation of the environment fails, ends without error having
\* emitted exactly ceil(n/c) entries, all of size c except a last one of
\* n mod c.
C1_CleanRunSizes ==
    (Done /\ started /\ NoFault /\ ChunkSize > 0 /\ source.kind # "reader")
        => /\ err = Nil
           /\ exit = "return"
           /\ EntrySizes = ExpectedSizes(Len(source.data), ChunkSize)

\* C2: when a run with chunk size c > 0 and no failing operation has ended,
\* the bodies of the entries, concatenated in emitted order, are the source
\* bytes, however the source split them across its Read calls.
C2_RoundTrip ==
    (Done /\ started /\ NoFault /\ ChunkSize > 0)
        => Bodies(Entries) = source.data

\* C3: on every exit path of a run (on a Config with a source and a target)
\* the source handle the program owns and the archive writer have each been
\* closed exactly once, and neither was used after its close.
C3_ClosedOnceOnEveryExit ==
    (Done /\ started /\ ValidConfig /\ (prog = "main" => source.kind = "file"))
        => /\ source.closed = 1
           /\ target.closed = 1
           /\ ~source.misuse
           /\ ~target.misuse

\* how a failed source Read shows in the result of the run
ReadErrorReported ==
    IF prog = "main"
    THEN exit = "os.Exit" /\ err = EIO
    ELSE "failed to read next chunk from source" \in Range(err)

\* C4: a run in which a source Read failed, with an error other than
\* end-of-stream, while bytes were buffered for the current chunk (by earlier
\* Reads, or by the failing Read itself) has ended with a source-read error;
\* no header and no body was written for the partial chunk, and the entries
\* are exactly the earlier full chunks.
C4_ReadErrorDropsPartialChunk ==
    (Done /\ source.fault = "read" /\ (read > 0 \/ n > 0))
        => /\ ReadErrorReported
           /\ Len(Entries) = i
           /\ \A k \in 1..Len(Entries) :
                /\ Entries[k].size = Len(b)
                /\ Entries[k].body =
                      SubSeq(source.data, (k - 1) * Len(b) + 1, k * Len(b))

\* a run that ended on a failed Read with bytes buffered, after whole chunks
C4_Witness ==
    /\ Done /\ source.fault = "read" /\ read > 0
    /\ Len(Entries) >= 1
    /\ source.pos > Len(Bodies(Entries))

\* C5: the front end that calls splittar.BlockSize rejects a chunk size <= 0
\* with a configuration error before any I/O: when such a run has ended (no
\* operation of the environment having failed), the source was not opened
\* and the target was not created or truncated.
C5_RejectedBeforeIO ==
    (Done /\ prog = "cmd" /\ cfg.block <= 0 /\ NoFault)
        => /\ ErrBlockSize[1] \in Range(err)
           /\ ~source.opened
           /\ ~target.created

\* C6: getSize fails or returns a strictly positive byte count (stated for
\* the inputs of at most MaxLen characters, whose products are far from the
\* int64 limits).
C6_SizePositive ==
    (Done /\ prog = "size" /\ Len(sizeString) <= MaxLen)
        => (size.err # Nil \/ I64Positive(size.val))

IsDigits(s) == s # <<>> /\ \A j \in 1..Len(s) : isdigit(s[j])
HasSuffix(v) == v # <<>> /\ ~isdigit(v[Len(v)])
NumPart(v) == IF HasSuffix(v) THEN SubSeq(v, 1, Len(v) - 1) ELSE v
WellFormed(v) == IsDigits(NumPart(v)) /\ (HasSuffix(v) => v[Len(v)] \in Suffixes)

\* the number a string of decimal digits denotes
RECURSIVE DecValueFrom(_, _, _)
DecValueFrom(ds, j, acc) ==
    IF j > Len(ds) THEN acc
    ELSE LET next == BigAdd(BigMulSmall(acc, 10), BigFromNat(DigitVal(ds[j])))
         IN  IF next = <<>> THEN DecValueFrom(ds, j + 1, <<>>)
             ELSE DecValueFrom(ds, j + 1, next)

DecValue(ds) == DecValueFrom(ds, 1, <<>>)

\* the multipliers as documented: 1000^0..1000^5 for b,k,m,g,t,p and
\* 1, 1024^1..1024^5 for B,K,M,G,T,P
DocumentedMults ==
    ("b" :> BigProd(<<1>>)) @@ ("B" :> BigProd(<<1>>)) @@
    ("k" :> BigProd(<<1000>>)) @@ ("K" :> BigProd(<<1024>>)) @@
    ("m" :> BigProd(<<1000, 1000>>)) @@ ("M" :> BigProd(<<1024, 1024>>)) @@
    ("g" :> BigProd(<<1000, 1000, 1000>>)) @@
    ("G" :> BigProd(<<1024, 1024, 1024>>)) @@
    ("t" :> BigProd(<<1000, 1000, 1000, 1000>>)) @@
    ("T" :> BigProd(<<1024, 1024, 1024, 1024>>)) @@
    ("p" :> BigProd(<<1000, 1000, 1000, 1000, 1000>>)) @@
    ("P" :> BigProd(<<1024, 1024, 1024, 1024, 1024>>))

MultOf(table, v) == IF HasSuffix(v) THEN table[v[Len(v)]] ELSE BigFromNat(1)

\* C7: for an input <digits>[suffix] getSize returns digits x multiplier,
\* with the documented multiplier of the suffix (whenever that product is an
\* int64 value).
C7_DocumentedMultiplier ==
    (Done /\ prog = "size" /\ WellFormed(sizeString))
        => LET product == BigMul(DecValue(NumPart(sizeString)),
                                 MultOf(DocumentedMults, sizeString))
           IN  BigLess(product, Two63)
                   => size.err = Nil /\ size.val = I64(FALSE, product)

\* C8: getSize fails whenever the numeric part is an int64 value and its
\* product with the multiplier is not.
C8_OverflowFails ==
    (Done /\ prog = "size" /\ WellFormed(sizeString))
        => LET num     == DecValue(NumPart(sizeString))
               product == BigMul(num, MultOf(sizeMults, sizeString))
           IN  (BigLess(num, Two63) /\ ~BigLess(product, Two63))
                   => size.err # Nil

\* C9: getSize returns an error for the empty string (empty input), for a
\* string whose last character is neither a digit nor a suffix of the table
\* (unknown suffix), and for a string whose numeric part before a valid
\* suffix is empty or holds a non-digit (invalid number).
C9_ErrorCases ==
    (Done /\ prog = "size")
        => LET v == sizeString
           IN  /\ v = <<>> => size.err = ErrEmptySize
               /\ (v # <<>> /\ HasSuffix(v) /\ v[Len(v)] \notin Suffixes)
                      => size.err = ErrSizeMultiplier
               /\ (v # <<>> /\ HasSuffix(v) /\ v[Len(v)] \in Suffixes
                      /\ ~IsDigits(NumPart(v)))
                      => (size.err # Nil /\ Head(size.err) = Head(ErrInvalidSize))

\* the characters of entry names in byte order
CharOrder == <<"-", ".", "0", "1", "2", "3", "4", "5", "6", "7", "8", "9", "f">>
CharRank(ch) == CHOOSE k \in 1..Len(CharOrder) : CharOrder[k] = ch

\* s < t as Go compares strings: byte by byte, a proper prefix first
RECURSIVE StrLess(_, _)
StrLess(s, t) ==
    IF t = <<>> THEN FALSE
    ELSE IF s = <<>> THEN TRUE
    ELSE IF Head(s) # Head(t) THEN CharRank(Head(s)) < CharRank(Head(t))
    ELSE StrLess(Tail(s), Tail(t))

NameOfIndex(k) ==
    IF prog = "main" THEN mainName(cfg.baseName, cfg.suffixLength, k)
    ELSE SplitTarName(k)

\* C10: the entries of a run carry the indexes 0, 1, 2, ... without gap or
\* repeat, each named by the zero-padded decimal rendering of its index; the
\* names are strictly increasing in index order and pairwise distinct; the
\* index advances only after a chunk has been flushed.
C10_NamesIncrease ==
    /\ Len(Entries) \in {i, i + 1}
    /\ \A k \in 1..Len(Entries) :
        /\ Entries[k].name = NameOfIndex(k - 1)
        /\ \A j \in 1..(k - 1) :
            /\ Entries[j].name # Entries[k].name
            /\ StrLess(Entries[j].name, Entries[k].name)

(***************************************************************************)
(* The calls made on the target.                                           *)
(***************************************************************************)
Log == target.log

\* some WriteHeader or Write call returned an error
FailedTargetCall ==
    \E k \in 1..Len(Log) :
        Log[k].op \in {"WriteHeader", "Write"} /\ Log[k].err # Nil

\* the calls log[k..] keep the order header, body, header, body, ...: rem is
\* the part of the current entry's body not yet written, seen whether a
\* header has been written
RECURSIVE AlternatesFrom(_, _, _, _)
AlternatesFrom(log, k, rem, seen) ==
    IF k > Len(log) THEN TRUE
    ELSE IF log[k].op = "WriteHeader"
    THEN /\ rem = 0
         /\ AlternatesFrom(log, k + 1,
                           IF log[k].err = Nil THEN log[k].arg ELSE 0,
                           seen \/ log[k].err = Nil)
    ELSE IF log[k].op = "Write"
    THEN /\ seen
         /\ log[k].n <= rem
         /\ AlternatesFrom(log, k + 1, rem - log[k].n, seen)
    ELSE AlternatesFrom(log, k + 1, rem, seen)

\* C11: the calls on the target alternate per entry: WriteHeader for index
\* i, then the body writes of index i; WriteHeader for index i+1 is called
\* only when the whole body of index i has been written; no body write comes
\* before the first header, and the bytes written are those of the entry
\* whose header was written last.
C11_HeaderThenBody ==
    /\ AlternatesFrom(Log, 1, 0, FALSE)
    /\ \A k \in 1..Len(Entries) :
        /\ Entries[k].name = NameOfIndex(k - 1)
        /\ k < Len(Entries) => Len(Entries[k].body) = Entries[k].size
    /\ Bodies(Entries) = SubSeq(source.data, 1, Len(Bodies(Entries)))

\* a run of the library that wrote three entries, header and body in turn
C11_Witness ==
    /\ Done /\ prog = "lib" /\ err = Nil
    /\ Len(Entries) = 3
    /\ [k \in 1..Len(Log) |-> Log[k].op]
          = <<"WriteHeader", "Write", "WriteHeader", "Write",
              "WriteHeader", "Write", "Close">>

\* C12: no WriteHeader is ever called with size 0, so no entry of size 0 is
\* emitted; and a run over an empty source in which no operation fails
\* calls neither WriteHeader nor Write, closes the archive writer (which
\* writes the footer) and ends with success.
C12_EmptySourceNoEntry ==
    /\ \A k \in 1..Len(Entries) : Entries[k].size > 0
    /\ \A k \in 1..Len(Log) : Log[k].op = "WriteHeader" => Log[k].arg > 0
    /\ (Done /\ started /\ NoFault /\ Len(source.data) = 0)
          => /\ Log = <<Call("Close", 0, 0, Nil)>>
             /\ Entries = <<>>
             /\ target.footer
             /\ err = Nil
             /\ exit = "return"

\* a run over an empty source that asked the source and was told
\* end-of-stream, and has ended
C12_Witness ==
    /\ Done /\ started /\ NoFault /\ Len(source.data) = 0
    /\ source.last = "eof"
    /\ target.footer /\ Entries = <<>>

\* C13: the bytes offered to Write for an entry are the first `fill offset`
\* bytes of the buffer: never more bytes than the size set in its header.
C13_OfferedIsFillOffset ==
    \A k \in 1..Len(Entries) : Entries[k].offered <= Entries[k].size

\* C14: every entry has a size from 1 to the configured chunk size, and an
\* entry smaller than the configured chunk size is the last one, written
\* when the source had no byte left.
C14_OnlyLastEntryShort ==
    (started /\ ChunkSize > 0)
        => \A k \in 1..Len(Entries) :
              /\ 1 <= Entries[k].size
              /\ Entries[k].size <= ChunkSize
              /\ Entries[k].size < ChunkSize
                    => (k = Len(Entries) /\ source.pos = Len(source.data))

\* C15: a Config built by NewConfig without BlockSize (block size 0), without
\* a source option or without a target option is rejected: the caller gets a
\* configuration error back, and neither Read nor WriteHeader nor Write is
\* called.
C15_UnsetBlockSizeRejected ==
    ( /\ Done /\ prog = "lib"
      /\ (~cfg.blockOption \/ cfg.sourceOption = "none"
                            \/ cfg.targetOption = "none") )
        => /\ err # Nil
           /\ exit = "return"
           /\ source.last = "none"
           /\ \A k \in 1..Len(Log) : Log[k].op = "Close"

\* the positions from which the program calls Read, WriteHeader or Write
LoopPositions == {"read", "flush", "write", "m_read", "m_flush", "m_write"}

\* C16: once a WriteHeader or a Write has returned an error the run is out
\* of its loops for good: the failed call is the last WriteHeader or Write
\* made, no Read follows it, and the run ends with a non-nil error (the
\* front end of main.go: with os.Exit).
C16_WriteFailureIsFatal ==
    FailedTargetCall
        => /\ pc \notin LoopPositions
           /\ pc \notin {"SplitTar", "make"}
           /\ \A k \in 1..Len(Log) :
                (Log[k].op # "Close" /\ Log[k].err # Nil)
                    => \A j \in (k + 1)..Len(Log) : Log[j].op = "Close"
           /\ Done => (IF prog = "main" THEN exit = "os.Exit" ELSE err # Nil)

\* a run of the library that ended on a failed body write after a whole
\* entry, with source bytes left unread
C16_Witness ==
    /\ Done /\ prog = "lib" /\ target.fault = "body"
    /\ Len(Entries) = 2
    /\ source.pos < Len(source.data)
    /\ "failed to write chunk to writer" \in Range(err)

\* C17: SplitTar never returns the end-of-stream signal (a call that panics
\* returns nothing): a run whose source
\* ended and whose target calls and closes all succeeded returns nil, whether
\* end-of-stream came with nothing buffered or with a partial chunk, which is
\* then flushed with its header; and a Read error other than end-of-stream is
\* returned.
C17_EndOfStreamNotAnError ==
    (prog \in {"lib", "cmd"})
        => /\ (Done /\ exit # "panic") => Head(EOF) \notin Range(err)
           /\ (Done /\ started /\ source.eof /\ NoFault /\ ~FailedTargetCall)
                 => err = Nil
           /\ (pc = "write" /\ source.last = "eof")
                 => /\ err = Nil
                    /\ Entries[Len(Entries)].size = read
           /\ (Done /\ source.fault = "read") => err # Nil

\* a run of the library whose source ended after two entries and that
\* returned nil
C17_Witness ==
    /\ Done /\ prog = "lib" /\ source.last = "eof"
    /\ err = Nil
    /\ Len(Entries) = 2

(***************************************************************************)
(* Termination: the program is sequential and keeps taking its next step.  *)
(* The runs are those of Spec on the sources of at most MaxSrcLen bytes.    *)
(***************************************************************************)
InitLive == InitLib \/ InitCmd \/ InitMainSmall

\* every step of the programs but main.go's call of getSize
StepsButGetSize ==
    \/ NewConfig
    \/ SplitTarBegin
    \/ SplitTarRead
    \/ SplitTarFlush
    \/ SplitTarWrite
    \/ SplitTarCloseTarget
    \/ SplitTarCloseSource
    \/ splitTarGetSource
    \/ splitTarGetTarget
    \/ splitTarNewConfig
    \/ mainInit
    \/ mainOpen
    \/ mainCreate
    \/ mainMake
    \/ mainRead
    \/ mainFlush
    \/ mainWrite
    \/ mainReturn

\* main.go's call of getSize returns: the step mainGetSize as it shows in
\* pc, so that whether the step is enabled is read off pc alone
mainGetSizeReturns ==
    pc = "getSize" /\ prog = "main" /\ pc' \in {"open", "done"}

SpecLive ==
    /\ InitLive /\ [][Next]_vars
    /\ WF_vars(StepsButGetSize)
    /\ WF_pc(mainGetSizeReturns)

\* C18: a run in which no Read returns zero bytes with no error reaches
\* Done; when the source length is a multiple of the chunk size and nothing
\* fails, the run ends after one more fill attempt, which meets end-of-stream
\* unless the buffer has length 0, with exactly length / chunk size entries; and a Read that returns zero
\* bytes with no error leaves the program in its read loop, with its fill
\* offset, its target and its result as they were.
C18_Terminates ==
    /\ <>(Done \/ source.last = "stall")
    /\ [](( /\ Done /\ started /\ NoFault /\ ChunkSize > 0
            /\ source.kind # "reader"
            /\ Len(source.data) % ChunkSize = 0 )
              => /\ err = Nil
                 /\ exit = "return"
                 /\ Len(b) > 0 => source.last = "eof"
                 /\ Len(Entries) = Len(source.data) \div ChunkSize)
    /\ [][(pc \in {"read", "m_read"} /\ source'.last = "stall")
            => /\ pc' = pc
               /\ read' = read
               /\ target' = target
               /\ exit' = exit]_vars

\* a run over a source of three chunks exactly that has ended with three
\* entries after a last Read met end-of-stream
C18_Witness ==
    /\ Done /\ started /\ NoFault /\ ChunkSize > 0
    /\ Len(source.data) = 3 * ChunkSize
    /\ Len(Entries) = 3
    /\ source.last = "eof" /\ n = 0
    /\ err = Nil

\* two headers that differ at most in name and size
SameButNameSize(h1, h2) == [h1 EXCEPT !.Name = h2.Name, !.Size = h2.Size] = h2

\* C19: the headers written in one run differ only in name and size: entry
\* type, mode, uid, gid, uname, gname and the three timestamps are those of
\* the template built before the loop, which a flush changes in name and size
\* only.
C19_OnlyNameAndSizeVary ==
    /\ \A k \in 1..Len(Entries) :
        /\ SameButNameSize(Entries[k].hdr, h)
        /\ Entries[k].hdr.ModTime = Now
        /\ \A j \in 1..Len(Entries) :
              SameButNameSize(Entries[j].hdr, Entries[k].hdr)
    /\ started =>
          SameButNameSize(h, IF prog = "main" THEN mainHeader
                             ELSE createTarHeader(host.user = "ok",
                                                  host.group = "ok"))

\* a run that wrote two headers of different name and size
C19_Witness ==
    /\ Len(Entries) = 2
    /\ Entries[1].hdr.Name # Entries[2].hdr.Name
    /\ Entries[1].hdr.Size # Entries[2].hdr.Size
    /\ Entries[1].hdr.Uid = Entries[2].hdr.Uid

\* C20: a failed lookup of the current user or of its group never ends the
\* program: the header template is built with the sentinel identity for what
\* was not resolved, and the run (on a Config with a source and a target)
\* enters its chunk loop.
C20_LookupFailureNotFatal ==
    /\ (host.user = "failed" /\ ValidConfig)
          => /\ exit # "panic"
             /\ Done => started
             /\ started => (h.Uid = SentinelId /\ h.Gid = SentinelId
                            /\ h.Uname = "<unknown>")
    /\ (host.group = "failed" /\ started) => h.Gname = "<unknown>"

====
